---- MODULE Spec2Model ----
(***************************************************************************)
(* Job queue / worker subsystem of the inference service                   *)
(* (src/inference/src: queue.py, job_service.py, worker.py, models.py).    *)
(*                                                                         *)
(* The three tables live in one SQLite database.  Every process (API       *)
(* request handlers, worker processes) works through its own SQLAlchemy    *)
(* session, so what one process sees of another is what has been           *)
(* committed.  A step of the model is therefore one read, or one           *)
(* transaction up to its commit.                                           *)
(***************************************************************************)
EXTENDS Integers, Sequences, FiniteSets, TLC

\* ---------------------------------------------------------------- bounds
MaxJobs == 2            \* job ids ever generated by create_job
MaxTime == 1            \* readings of the millisecond clock after the first
MaxMedia == 1           \* distinct media_store_id values
MaxPlanFailures == 1    \* adapter plans "fail k times, then succeed", k up to this
MaxRowId == 3           \* rowids a caller of the Queue class alone makes it use
MaxUploadRetries == 8   \* max_retries a caller of upload_results_with_retry passes

\* ------------------------------------------------------- program constants
MinPriority == 0
MaxPriority == 10
DefaultPriority == 5
DefaultMaxRetries == 3
UploadMaxRetries == 3
BackoffCap == 60

\* valid_tasks with one name too many
ValidTasks_WithBogus ==
    {"image_embedding", "face_detection", "face_embedding", "bogus"}

ValidTasks == {"image_embedding", "face_detection", "face_embedding"}
ActiveStatuses == {"pending", "processing"}
TerminalStatuses == {"completed", "error"}
StampedStatuses == {"completed", "error", "sync_failed"}

\* NULL of a nullable column, by column type
NoTime == 0
NoWorker == "NULL"
NoText == "NULL"
NoJob == 0
NoEntry == 0

\* ------------------------------------------------------------ input sets
Clients == {"api-1", "api-2"}
Workers == {"worker-1", "worker-2"}
JobIds == 1..MaxJobs
MediaIds == 1..MaxMedia
TaskInputs == {"image_embedding", "face_detection", "bogus"}
PriorityInputs == {DefaultPriority, 7, MaxPriority + 1}
\* The deployments examined: which API processes and worker processes run
\* against the database, the WORKER_MAX_RETRIES the workers are started
\* with, and how many jobs are created in all.
\* session: "request" when every call gets a session of its own that is
\* closed after it (get_db of the routes), "shared" when the caller keeps one
\* session over its calls (a JobService used as a library, as the tests do).
\* adapter: "any" when the media store and the inference may fail,
\* "succeeds" when they never do.
Deployments ==
    {[api |-> {"api-1", "api-2"}, workers |-> {},
      max_retries |-> DefaultMaxRetries, jobs |-> MaxJobs,
      session |-> "request", adapter |-> "any"],
     [api |-> {"api-1"}, workers |-> {"worker-1"},
      max_retries |-> DefaultMaxRetries, jobs |-> MaxJobs,
      session |-> "request", adapter |-> "any"],
     [api |-> {"api-1"}, workers |-> {"worker-1", "worker-2"},
      max_retries |-> DefaultMaxRetries, jobs |-> MaxJobs - 1,
      session |-> "request", adapter |-> "any"],
     [api |-> {"api-1"}, workers |-> {"worker-1"},
      max_retries |-> 0, jobs |-> MaxJobs - 1,
      session |-> "request", adapter |-> "any"]}
ErrorTexts == {"", "boom"}
AlwaysFail == DefaultMaxRetries + 1
AdapterPlans == (0..MaxPlanFailures) \cup {AlwaysFail}

VARIABLES
    jobs,        \* table jobs: job_id -> row
    queue,       \* table queue: entry id (rowid) -> row
    sync,        \* table media_store_sync_status: job_id -> row
    nextJob,     \* job ids generated so far + 1 (uuid4 never repeats)
    now,         \* int(time.time() * 1000)
    deployment,  \* the processes running and their WORKER_MAX_RETRIES
    shutdown,    \* shutdown_event of the worker process is set
    published,   \* events the MQTT client has accepted for the topic
    broadcaster, \* the Broadcaster: enabled, client, and what its last
                 \* publish call did
    superseded,  \* ids of the jobs create_job has deleted to replace them
    deletedPending, \* history: ids of the jobs a delete_job call found
                 \* with status pending
    returned,    \* history: the job ids Queue.dequeue has returned to a
                 \* worker
    upload,      \* one call of upload_results_with_retry: its max_retries,
                 \* the loop variable, and the history of its post_results
                 \* outcomes and of its sleeps
    held,        \* per API client: job rows its session has flushed and
                 \* not committed (only a session that outlives a call)
    cpc,         \* per API client: position in the request it is serving
    req,         \* per API client: the request being served and its outcome
    wpc,         \* per worker: position in run / process_job
    wentry,      \* per worker: id of the queue row dequeue selected
    wjob,        \* per worker: job_id dequeue returned
    wtry,        \* per worker: attempt index in upload_results_with_retry
    wretry,      \* per worker: job.retry_count as the except branch read it
    werr,        \* per worker: str(e) of the exception process_job caught
    attempts,    \* per job: adapter calls made so far
    plan         \* per job: how many adapter calls fail before one succeeds

tables == <<jobs, queue, sync>>
world == <<deployment, shutdown, published, broadcaster, superseded,
          deletedPending, returned, upload>>
clientVars == <<cpc, req, held>>
workerVars == <<wpc, wentry, wjob, wtry, wretry, werr>>
adapterVars == <<attempts, plan>>
vars == <<jobs, queue, sync, nextJob, now, deployment, shutdown, published,
          broadcaster, superseded, deletedPending, returned, upload, cpc, req, held, wpc,
          wentry, wjob, wtry, wretry,
          werr,
          attempts, plan>>

\* ---------------------------------------------------------------- helpers
Drop(f, k) == [x \in DOMAIN f \ {k} |-> f[x]]

MaxOf(S) == CHOOSE x \in S : \A y \in S : y <= x

\* Job(...) as create_job builds it; the other columns take their defaults.
NewJob(task_type, media_store_id) ==
    [task_type |-> task_type, media_store_id |-> media_store_id,
     status |-> "pending", started_at |-> NoTime, completed_at |-> NoTime,
     error_message |-> NoText, retry_count |-> 0, result |-> NoText]

NewEntry(job_id, priority, t) ==
    [job_id |-> job_id, priority |-> priority, enqueued_at |-> t,
     dequeued_at |-> NoTime, worker_id |-> NoWorker]

NewSync == [sync_status |-> "pending", retry_count |-> 0]

\* The engine is SQLite and is created without PRAGMA foreign_keys=ON, so
\* the ON DELETE CASCADE of queue.job_id and media_store_sync_status.job_id
\* is not acted on; no ORM relationship cascades either.
ForeignKeysEnforced == FALSE

\* ------------------------------------------------------------------ Queue
EntriesOf(q, job_id) == {e \in DOMAIN q : q[e].job_id = job_id}

Unclaimed(q) == {e \in DOMAIN q : q[e].dequeued_at = NoTime}

\* INTEGER PRIMARY KEY without AUTOINCREMENT: largest rowid in the table + 1
NextRowId(q) == IF DOMAIN q = {} THEN 1 ELSE MaxOf(DOMAIN q) + 1

PriorityValid(priority) == MinPriority <= priority /\ priority <= MaxPriority

\* Queue.enqueue with the priority validated before the duplicate check
EnqueueResult_ValidatesFirst(q, job_id, priority) ==
    IF ~PriorityValid(priority) THEN "ValueError"
    ELSE IF EntriesOf(q, job_id) # {} THEN "False"
    ELSE "True"

\* Queue.enqueue: what it returns ("True", "False") or raises ("ValueError")
EnqueueResult(q, job_id, priority) ==
    IF EntriesOf(q, job_id) # {} THEN "False"
    ELSE IF ~PriorityValid(priority) THEN "ValueError"
    ELSE "True"

\* Queue.enqueue: the queue table after the call
Enqueue(q, job_id, priority, t) ==
    IF EnqueueResult(q, job_id, priority) = "True"
    THEN q @@ (NextRowId(q) :> NewEntry(job_id, priority, t))
    ELSE q

\* ORDER BY priority DESC, enqueued_at ASC: a comes strictly before b
OrderedBefore(q, a, b) ==
    \/ q[a].priority > q[b].priority
    \/ q[a].priority = q[b].priority /\ q[a].enqueued_at < q[b].enqueued_at

\* The rows .first() may return: the ORDER BY leaves rows with equal
\* (priority, enqueued_at) in no defined order.
DequeueCandidates(q) ==
    {e \in Unclaimed(q) : \A o \in Unclaimed(q) : ~OrderedBefore(q, o, e)}

\* a dequeue that marks every unclaimed row
Claim_AllUnclaimed(q, e, worker_id, t) ==
    [x \in DOMAIN q |->
        IF q[x].dequeued_at = NoTime
        THEN [q[x] EXCEPT !.dequeued_at = t, !.worker_id = worker_id]
        ELSE q[x]]

\* Queue.dequeue: the table after row e has been marked for worker_id
Claim(q, e, worker_id, t) ==
    [q EXCEPT ![e] = [@ EXCEPT !.dequeued_at = t, !.worker_id = worker_id]]

\* Queue.get_all_pending: the lists .all() may return, every unclaimed row
\* once, no row behind one the ORDER BY puts strictly after it
PendingOrders(q) ==
    {s \in [1..Cardinality(Unclaimed(q)) -> Unclaimed(q)] :
        /\ \A i, k \in DOMAIN s : i # k => s[i] # s[k]
        /\ \A i, k \in DOMAIN s : i < k => ~OrderedBefore(q, s[k], s[i])}

\* Queue.get_all_pending: the tuples (job_id, priority, enqueued_at)
PendingRows(q, s) ==
    [i \in DOMAIN s |-> <<q[s[i]].job_id, q[s[i]].priority, q[s[i]].enqueued_at>>]

\* Queue.remove
Remove(q, job_id) ==
    IF EntriesOf(q, job_id) = {} THEN q
    ELSE Drop(q, CHOOSE e \in EntriesOf(q, job_id) : TRUE)

\* Queue.size
Size(q) == Cardinality(Unclaimed(q))

\* ------------------------------------------------------------- JobService
\* the duplicate query with the status filter narrowed to pending jobs
ExistingActive_PendingOnly(J, media_store_id, task_type) ==
    {j \in DOMAIN J : /\ J[j].media_store_id = media_store_id
                      /\ J[j].task_type = task_type
                      /\ J[j].status = "pending"}

\* a duplicate query that does not filter by task type
ExistingActive_AnyTask(J, media_store_id, task_type) ==
    {j \in DOMAIN J : /\ J[j].media_store_id = media_store_id
                      /\ J[j].status \in ActiveStatuses}

\* the duplicate query of create_job
ExistingActive(J, media_store_id, task_type) ==
    {j \in DOMAIN J : /\ J[j].media_store_id = media_store_id
                      /\ J[j].task_type = task_type
                      /\ J[j].status \in ActiveStatuses}

\* update_job_status that stamps started_at on every change to processing
UpdateJobStatus_Restamps(J, job_id, status, error_message, result, t) ==
    IF job_id \notin DOMAIN J THEN J
    ELSE [J EXCEPT ![job_id] =
            [@ EXCEPT
               !.status = status,
               !.started_at = IF status = "processing" THEN t ELSE @,
               !.completed_at =
                   IF status \in StampedStatuses THEN t ELSE @,
               !.error_message =
                   IF error_message \notin {NoText, ""} THEN error_message ELSE @,
               !.result =
                   IF result \notin {NoText, ""} THEN result ELSE @]]

\* update_job_status that creates the row it does not find
UpdateJobStatus_Upsert(J, job_id, status, error_message, result, t) ==
    IF job_id \notin DOMAIN J
    THEN J @@ (job_id :> [NewJob("image_embedding", 1) EXCEPT !.status = status])
    ELSE [J EXCEPT ![job_id].status = status]

\* JobService.update_job_status: the jobs table after the call
UpdateJobStatus(J, job_id, status, error_message, result, t) ==
    IF job_id \notin DOMAIN J THEN J
    ELSE [J EXCEPT ![job_id] =
            [@ EXCEPT
               !.status = status,
               !.started_at =
                   IF status = "processing" /\ @ = NoTime THEN t ELSE @,
               !.completed_at =
                   IF status \in StampedStatuses THEN t ELSE @,
               !.error_message =
                   IF error_message \notin {NoText, ""} THEN error_message ELSE @,
               !.result =
                   IF result \notin {NoText, ""} THEN result ELSE @]]

\* routes.py: the HTTP status a request ends with
RouteStatus(op, outcome) ==
    CASE outcome = "created" -> 201
      [] outcome = "already_exists" -> 409
      [] outcome \in {"invalid_task", "invalid_priority"} -> 400
      [] outcome = "deleted" -> 204
      [] outcome = "not_found" -> 404
      [] OTHER -> 500

NoRequest ==
    [op |-> "none", task_type |-> "none", media_store_id |-> 0,
     priority |-> 0, job_id |-> NoJob, worker_id |-> NoWorker,
     outcome |-> "none", rows |-> <<>>]

\* what a client holds once its request has been answered
Answered(op, outcome) == [NoRequest EXCEPT !.op = op, !.outcome = outcome]

\* what the session of client c reads from the jobs table: the committed
\* rows and the rows the session itself has flushed
SessionJobs(c) == held[c] @@ jobs

\* JobService.get_job: None, or the job's status with the priority of its
\* queue row (5 when it has none)
GetJob(J, q, job_id) ==
    IF job_id \notin DOMAIN J THEN [found |-> FALSE]
    ELSE [found |-> TRUE, job_id |-> job_id, status |-> J[job_id].status,
          priority |-> IF EntriesOf(q, job_id) = {} THEN DefaultPriority
                       ELSE q[CHOOSE e \in EntriesOf(q, job_id) : TRUE].priority]

\* ----------------------------------------------- upload_results_with_retry
\* no call of upload_results_with_retry made yet
NoUpload ==
    [max_retries |-> 0, attempt |-> 0, results |-> <<>>, delays |-> <<>>,
     did |-> "idle", raised |-> NoText]

\* a backoff that is not capped
Delay_Uncapped(attempt) == 2 ^ attempt

\* delay = min(2**attempt, 60)
Delay(attempt) ==
    IF 2 ^ attempt < BackoffCap THEN 2 ^ attempt ELSE BackoffCap

\* the call: for attempt in range(max_retries) starts with attempt 0 and
\* the function returns None when the range is empty
UploadBegin(max_retries) ==
    /\ upload.did # "running"
    /\ upload' = [NoUpload EXCEPT !.max_retries = max_retries,
                                  !.did = IF max_retries = 0 THEN "returned"
                                          ELSE "running"]
    /\ UNCHANGED <<tables, nextJob, now, deployment, shutdown, published,
                   broadcaster, superseded, deletedPending, returned, clientVars,
                   workerVars, adapterVars>>

\* one pass of the for loop: post_results returns, or raises e; after a
\* failure that is not the last the call sleeps for the delay and goes on,
\* after the last it re-raises e
UploadAttempt(outcome) ==
    /\ upload.did = "running"
    /\ LET u == [upload EXCEPT !.results = Append(@, outcome)]
       IN upload' =
            IF outcome = "ok" THEN [u EXCEPT !.did = "returned"]
            ELSE IF upload.attempt < upload.max_retries - 1
            THEN [u EXCEPT !.delays = Append(@, Delay(upload.attempt)),
                           !.attempt = @ + 1]
            ELSE [u EXCEPT !.did = "raised", !.raised = outcome]
    /\ UNCHANGED <<tables, nextJob, now, deployment, shutdown, published,
                   broadcaster, superseded, deletedPending, returned, clientVars,
                   workerVars, adapterVars>>

\* ------------------------------------------------------------ Broadcaster
BroadcastTypes == {"mqtt", "sse", "none"}
SetupOutcomes == {"ok", "client_raises", "connect_raises"}
LinkStates == {"connected", "disconnected"}
ClientPublishOutcomes == {"ok", "error_code", "raises"}
EventTypes == {"job_completed", "job_failed"}

\* Broadcaster.__init__ and _setup_mqtt: enabled only for BROADCAST_TYPE
\* "mqtt"; when mqtt.Client raises there is no client, when loop_start or
\* connect_async raises there is one, and either way enabled is reset.
\* connect_async only starts the connection: the client is not connected
\* when the constructor returns, and it holds no message yet.
NewBroadcaster(broadcast_type, setup) ==
    IF broadcast_type # "mqtt"
    THEN [enabled |-> FALSE, client |-> FALSE, last |-> "none",
          link |-> "disconnected", queued |-> {}]
    ELSE [enabled |-> setup = "ok",
          client |-> setup # "client_raises",
          last |-> "none", link |-> "disconnected", queued |-> {}]

\* publish without the try around the client call
Publish_Unguarded(b, link, outcome) ==
    IF ~b.enabled THEN [did |-> "skipped", sent |-> FALSE, kept |-> FALSE]
    ELSE IF ~b.client THEN [did |-> "no_client", sent |-> FALSE, kept |-> FALSE]
    ELSE IF outcome = "raises"
    THEN [did |-> "raised", sent |-> FALSE, kept |-> FALSE]
    ELSE [did |-> IF outcome = "error_code" THEN "failed" ELSE "published",
          sent |-> outcome = "ok" /\ link = "connected",
          kept |-> link = "disconnected"]

\* Broadcaster.publish: what the call did (returned after skipping, after
\* finding no client, after logging the error code or the exception of
\* client.publish, after publishing; or "raised") and whether the client
\* sent the message.  A client that is not connected is only logged
\* ("queuing ... for later publish"), the publish is attempted all the same
\* with qos=1: the client answers an error code or success and keeps the
\* message to send it once it is connected ("paho will queue the message").
Publish(b, link, outcome) ==
    IF ~b.enabled THEN [did |-> "skipped", sent |-> FALSE, kept |-> FALSE]
    ELSE IF ~b.client THEN [did |-> "no_client", sent |-> FALSE, kept |-> FALSE]
    ELSE IF outcome = "raises"
    THEN [did |-> "caught", sent |-> FALSE, kept |-> FALSE]
    ELSE [did |-> IF outcome = "error_code" THEN "failed" ELSE "published",
          sent |-> outcome = "ok" /\ link = "connected",
          kept |-> link = "disconnected"]

\* a caller publishes an event for a job
PublishCall(c, event_type, job_id) ==
    /\ cpc[c] = "idle"
    /\ \E outcome \in ClientPublishOutcomes :
          LET r == Publish(broadcaster, broadcaster.link, outcome)
              message == [event |-> event_type, job_id |-> job_id]
          IN /\ broadcaster' =
                   [broadcaster EXCEPT
                      !.last = r.did,
                      !.queued = IF r.kept THEN @ \cup {message} ELSE @]
             /\ published' = IF r.sent THEN published \cup {message}
                             ELSE published
    /\ UNCHANGED <<tables, nextJob, now, deployment, shutdown, superseded,
                   deletedPending, returned, upload,
                   clientVars, workerVars,
                   adapterVars>>

\* the client's network loop (loop_start) gets the connection that
\* connect_async asked for, or gets it back: _on_connect is called, and the
\* client sends the messages it has kept
BrokerConnect ==
    /\ broadcaster.enabled
    /\ broadcaster.link = "disconnected"
    /\ broadcaster' = [broadcaster EXCEPT !.link = "connected", !.queued = {}]
    /\ published' = published \cup broadcaster.queued
    /\ UNCHANGED <<tables, nextJob, now, deployment, shutdown, superseded,
                   deletedPending, returned, upload,
                   clientVars, workerVars,
                   adapterVars>>

\* the connection is lost: _on_disconnect is called
BrokerDisconnect ==
    /\ broadcaster.enabled
    /\ broadcaster.link = "connected"
    /\ broadcaster' = [broadcaster EXCEPT !.link = "disconnected"]
    /\ UNCHANGED <<tables, nextJob, now, deployment, shutdown, published,
                   superseded, deletedPending, returned, upload,
                   clientVars, workerVars,
                   adapterVars>>

\* ------------------------------------------------------------------- Init
Init ==
    /\ jobs = <<>>
    /\ queue = <<>>
    /\ sync = <<>>
    /\ nextJob = 1
    /\ now = 1
    /\ deployment \in Deployments
    /\ shutdown = FALSE
    /\ published = {}
    /\ broadcaster = NewBroadcaster("mqtt", "ok")
    /\ superseded = {}
    /\ deletedPending = {}
    /\ returned = {}
    /\ upload = NoUpload
    /\ cpc = [c \in Clients |-> "idle"]
    /\ req = [c \in Clients |-> NoRequest]
    /\ held = [c \in Clients |-> <<>>]
    /\ wpc = [w \in Workers |-> "poll"]
    /\ wentry = [w \in Workers |-> NoEntry]
    /\ wjob = [w \in Workers |-> NoJob]
    /\ wtry = [w \in Workers |-> 0]
    /\ wretry = [w \in Workers |-> 0]
    /\ werr = [w \in Workers |-> NoText]
    /\ attempts = [j \in JobIds |-> 0]
    /\ plan = [j \in JobIds |-> 0]

\* the clock moves on between any two steps, or does not
Tick ==
    /\ now < 1 + MaxTime
    /\ now' = now + 1
    /\ UNCHANGED <<tables, nextJob, world, clientVars, workerVars, adapterVars>>

\* ------------------------------------------------- create_job (reject policy)
\* task validation and duplicate query
CreateJobBegin(c, task_type, media_store_id, priority) ==
    /\ cpc[c] = "idle"
    /\ LET r == [op |-> "create", task_type |-> task_type,
                 media_store_id |-> media_store_id, priority |-> priority,
                 job_id |-> NoJob, worker_id |-> NoWorker,
                 outcome |-> "running", rows |-> <<>>]
       IN IF task_type \notin ValidTasks
          THEN /\ req' = [req EXCEPT ![c] = Answered("create", "invalid_task")]
               /\ UNCHANGED cpc
          ELSE IF ExistingActive(SessionJobs(c), media_store_id, task_type) # {}
          THEN /\ req' = [req EXCEPT ![c] = Answered("create", "already_exists")]
               /\ UNCHANGED cpc
          ELSE /\ nextJob + Cardinality({o \in Clients : cpc[o] = "create_enqueue"})
                    <= deployment.jobs
               /\ req' = [req EXCEPT ![c] = r]
               /\ cpc' = [cpc EXCEPT ![c] = "create_enqueue"]
    /\ UNCHANGED <<tables, nextJob, now, world, held, workerVars, adapterVars>>

\* add(job), flush, queue.enqueue: the job row and its queue row are
\* committed together by the commit inside enqueue (with whatever else the
\* session had flushed).  A ValueError from enqueue leaves create_job with
\* the job row flushed and nothing rolled back: a request's session is then
\* closed, which rolls back; a session that is kept keeps the row in its
\* open transaction.
CreateJobEnqueue(c) ==
    /\ cpc[c] = "create_enqueue"
    /\ LET job_id == nextJob
           r == req[c]
       IN IF EnqueueResult(queue, job_id, r.priority) = "ValueError"
          THEN /\ req' = [req EXCEPT ![c] = Answered("create", "invalid_priority")]
               /\ cpc' = [cpc EXCEPT ![c] = "idle"]
               /\ IF deployment.session = "shared"
                  THEN /\ held' = [held EXCEPT ![c] =
                                      @ @@ (job_id :> NewJob(r.task_type,
                                                             r.media_store_id))]
                       /\ nextJob' = nextJob + 1
                  ELSE UNCHANGED <<held, nextJob>>
               /\ UNCHANGED <<jobs, queue>>
          ELSE /\ jobs' = SessionJobs(c)
                             @@ (job_id :> NewJob(r.task_type, r.media_store_id))
               /\ held' = [held EXCEPT ![c] = <<>>]
               /\ queue' = Enqueue(queue, job_id, r.priority, now)
               /\ nextJob' = nextJob + 1
               /\ req' = [req EXCEPT ![c] =
                             [Answered("create", "running") EXCEPT !.job_id = job_id]]
               /\ cpc' = [cpc EXCEPT ![c] = "create_sync"]
    /\ UNCHANGED <<sync, now, world, workerVars, adapterVars>>

\* add(sync_status), commit, _job_to_response (which reloads the job row)
CreateJobSync(c) ==
    /\ cpc[c] = "create_sync"
    /\ sync' = sync @@ (req[c].job_id :> NewSync)
    /\ req' = [req EXCEPT ![c] =
                  Answered("create", IF req[c].job_id \in DOMAIN jobs
                                     THEN "created" ELSE "error")]
    /\ cpc' = [cpc EXCEPT ![c] = "idle"]
    /\ UNCHANGED <<jobs, queue, nextJob, now, world, held, workerVars, adapterVars>>

\* create_job is left by an exception of the database layer (a commit that
\* fails, the process ending): what is not committed yet is rolled back.
CreateJobFail(c) ==
    /\ cpc[c] \in {"create_enqueue", "create_sync"}
    /\ req' = [req EXCEPT ![c] = Answered("create", "error")]
    /\ cpc' = [cpc EXCEPT ![c] = "idle"]
    /\ held' = [held EXCEPT ![c] = <<>>]
    /\ UNCHANGED <<tables, nextJob, now, world, workerVars, adapterVars>>

\* ------------------------------------------------------------- delete_job
\* job lookup, queue.remove (which commits when it finds a row)
DeleteJobRemove(c, job_id) ==
    /\ cpc[c] = "idle"
    /\ LET r == [Answered("delete", "running") EXCEPT !.job_id = job_id]
       IN IF job_id \notin DOMAIN SessionJobs(c)
          THEN /\ req' = [req EXCEPT ![c] =
                             [Answered("delete", "not_found")
                                 EXCEPT !.job_id = job_id]]
               /\ UNCHANGED <<cpc, queue, jobs, held>>
          ELSE /\ req' = [req EXCEPT ![c] = r]
               /\ queue' = Remove(queue, job_id)
               /\ IF EntriesOf(queue, job_id) # {}
                  THEN /\ jobs' = SessionJobs(c)
                       /\ held' = [held EXCEPT ![c] = <<>>]
                  ELSE UNCHANGED <<jobs, held>>
               /\ cpc' = [cpc EXCEPT ![c] = "delete_commit"]
    /\ UNCHANGED <<sync, nextJob, now, deployment, shutdown, published,
                   broadcaster, superseded, returned, upload, workerVars,
                   adapterVars>>

DeleteJobBegin(c, job_id) ==
    /\ DeleteJobRemove(c, job_id)
    /\ UNCHANGED deletedPending

\* the same step, keeping the history of the jobs it found pending
DeleteJobBeginLogged(c, job_id) ==
    /\ DeleteJobRemove(c, job_id)
    /\ deletedPending' =
          IF job_id \in DOMAIN SessionJobs(c)
             /\ SessionJobs(c)[job_id].status = "pending"
          THEN deletedPending \cup {job_id}
          ELSE deletedPending

\* delete_job that commits without the db.delete(job)
DeleteJobCommit_KeepsJob(c) ==
    /\ cpc[c] = "delete_commit"
    /\ jobs' = SessionJobs(c)
    /\ held' = [held EXCEPT ![c] = <<>>]
    /\ req' = [req EXCEPT ![c] = Answered("delete", "deleted")]
    /\ cpc' = [cpc EXCEPT ![c] = "idle"]
    /\ UNCHANGED <<queue, sync, nextJob, now, world, workerVars, adapterVars>>

\* rmtree, db.delete(job), commit
DeleteJobCommit(c) ==
    /\ cpc[c] = "delete_commit"
    /\ LET job_id == req[c].job_id
       IN /\ jobs' = Drop(SessionJobs(c), job_id)
          /\ held' = [held EXCEPT ![c] = <<>>]
          /\ sync' = IF ForeignKeysEnforced THEN Drop(sync, job_id) ELSE sync
          /\ queue' = IF ForeignKeysEnforced
                      THEN [e \in {x \in DOMAIN queue : queue[x].job_id # job_id}
                              |-> queue[e]]
                      ELSE queue
    /\ req' = [req EXCEPT ![c] = Answered("delete", "deleted")]
    /\ cpc' = [cpc EXCEPT ![c] = "idle"]
    /\ UNCHANGED <<nextJob, now, world, workerVars, adapterVars>>

\* ------------------------------------------ JobService used as a library
\* update_job_status called by the holder of the session: the lookup, the
\* assignments and the commit.  Without a commit, what the call wrote stays
\* in the session.
UpdateStatusCall(c, job_id, status, error_message, result) ==
    /\ cpc[c] = "idle"
    /\ LET found == job_id \in DOMAIN SessionJobs(c)
           after == UpdateJobStatus(SessionJobs(c), job_id, status,
                                    error_message, result, now)
       IN IF found
          THEN /\ jobs' = after
               /\ held' = [held EXCEPT ![c] = <<>>]
               /\ req' = [req EXCEPT ![c] = Answered("update", "updated")]
          ELSE /\ held' = [held EXCEPT ![c] =
                              [j \in DOMAIN after \ DOMAIN jobs |-> after[j]]]
               /\ req' = [req EXCEPT ![c] = Answered("update", "not_found")]
               /\ UNCHANGED jobs
    /\ UNCHANGED <<queue, sync, nextJob, now, world, cpc, workerVars, adapterVars>>

\* get_job called by the holder of the session
GetJobCall(c, job_id) ==
    /\ cpc[c] = "idle"
    /\ req' = [req EXCEPT ![c] =
                  Answered("get", IF GetJob(SessionJobs(c), queue, job_id).found
                                  THEN "found" ELSE "none")]
    /\ UNCHANGED <<tables, nextJob, now, world, cpc, held, workerVars, adapterVars>>

\* ------------------------------ the Queue class called by its holder
\* Queue.enqueue
EnqueueCall(c, job_id, priority) ==
    /\ cpc[c] = "idle"
    /\ NextRowId(queue) <= MaxRowId
    /\ queue' = Enqueue(queue, job_id, priority, now)
    /\ req' = [req EXCEPT ![c] =
                  [Answered("enqueue", EnqueueResult(queue, job_id, priority))
                      EXCEPT !.job_id = job_id, !.priority = priority]]
    /\ UNCHANGED <<jobs, sync, nextJob, now, world, cpc, held, workerVars,
                   adapterVars>>

\* Queue.dequeue, the query and the commit of one caller
DequeueCall(c, worker_id) ==
    /\ cpc[c] = "idle"
    /\ IF DequeueCandidates(queue) = {}
       THEN /\ req' = [req EXCEPT ![c] =
                          [Answered("dequeue", "none")
                              EXCEPT !.worker_id = worker_id]]
            /\ UNCHANGED queue
       ELSE \E e \in DequeueCandidates(queue) :
               /\ queue' = Claim(queue, e, worker_id, now)
               /\ req' = [req EXCEPT ![c] =
                             [Answered("dequeue", "returned")
                                 EXCEPT !.job_id = queue[e].job_id,
                                        !.worker_id = worker_id]]
    /\ UNCHANGED <<jobs, sync, nextJob, now, world, cpc, held, workerVars,
                   adapterVars>>

\* Queue.remove
RemoveCall(c, job_id) ==
    /\ cpc[c] = "idle"
    /\ queue' = Remove(queue, job_id)
    /\ req' = [req EXCEPT ![c] =
                  [Answered("remove", IF EntriesOf(queue, job_id) # {}
                                      THEN "True" ELSE "False")
                      EXCEPT !.job_id = job_id]]
    /\ UNCHANGED <<jobs, sync, nextJob, now, world, cpc, held, workerVars,
                   adapterVars>>

\* Queue.peek
PeekCall(c) ==
    /\ cpc[c] = "idle"
    /\ IF DequeueCandidates(queue) = {}
       THEN req' = [req EXCEPT ![c] = Answered("peek", "none")]
       ELSE \E e \in DequeueCandidates(queue) :
               req' = [req EXCEPT ![c] =
                          [Answered("peek", "returned")
                              EXCEPT !.job_id = queue[e].job_id,
                                     !.priority = queue[e].priority]]
    /\ UNCHANGED <<tables, nextJob, now, world, cpc, held, workerVars,
                   adapterVars>>

\* Queue.get_all_pending
GetAllPendingCall(c) ==
    /\ cpc[c] = "idle"
    /\ \E s \in PendingOrders(queue) :
          req' = [req EXCEPT ![c] =
                     [Answered("get_all_pending", "returned")
                         EXCEPT !.rows = PendingRows(queue, s)]]
    /\ UNCHANGED <<tables, nextJob, now, world, cpc, held, workerVars,
                   adapterVars>>

\* ------------------------------------ create_job (supersede policy)
\* services/inference JobService.create_job: task validation, duplicate
\* query; a duplicate is deleted with delete_job, whose lookup and
\* queue.remove (which commits when it finds a row) are this step too.
ServiceCreateJobBegin(c, task_type, media_store_id, priority) ==
    /\ cpc[c] = "idle"
    /\ LET r == [op |-> "create", task_type |-> task_type,
                 media_store_id |-> media_store_id, priority |-> priority,
                 job_id |-> NoJob, worker_id |-> NoWorker,
                 outcome |-> "running", rows |-> <<>>]
           existing == ExistingActive(SessionJobs(c), media_store_id, task_type)
       IN IF task_type \notin ValidTasks
          THEN /\ req' = [req EXCEPT ![c] = Answered("create", "invalid_task")]
               /\ UNCHANGED <<cpc, queue>>
          ELSE /\ nextJob + Cardinality({o \in Clients :
                        cpc[o] \in {"create_enqueue", "supersede_commit"}})
                    <= deployment.jobs
               /\ IF existing = {}
                  THEN /\ req' = [req EXCEPT ![c] = r]
                       /\ cpc' = [cpc EXCEPT ![c] = "create_enqueue"]
                       /\ UNCHANGED queue
                  ELSE \E old \in existing :
                       /\ req' = [req EXCEPT ![c] = [r EXCEPT !.job_id = old]]
                       /\ queue' = Remove(queue, old)
                       /\ cpc' = [cpc EXCEPT ![c] = "supersede_commit"]
    /\ UNCHANGED <<jobs, sync, nextJob, now, world, held, workerVars, adapterVars>>

\* delete_job of the duplicate: rmtree, db.delete(job), commit; create_job
\* then goes on to create the new job
ServiceSupersedeCommit(c) ==
    /\ cpc[c] = "supersede_commit"
    /\ LET old == req[c].job_id
       IN /\ jobs' = Drop(jobs, old)
          /\ sync' = IF ForeignKeysEnforced THEN Drop(sync, old) ELSE sync
          /\ queue' = IF ForeignKeysEnforced
                      THEN [e \in {x \in DOMAIN queue : queue[x].job_id # old}
                              |-> queue[e]]
                      ELSE queue
          /\ superseded' = superseded \cup {old}
    /\ cpc' = [cpc EXCEPT ![c] = "create_enqueue"]
    /\ UNCHANGED <<nextJob, now, deployment, shutdown, published, broadcaster,
                   deletedPending, returned, upload,
                   req, held, workerVars,
                   adapterVars>>

\* ------------------------------------------------------------- Worker.run
WorkerReset(w) ==
    /\ wentry' = [wentry EXCEPT ![w] = NoEntry]
    /\ wjob' = [wjob EXCEPT ![w] = NoJob]
    /\ wtry' = [wtry EXCEPT ![w] = 0]
    /\ wretry' = [wretry EXCEPT ![w] = 0]
    /\ werr' = [werr EXCEPT ![w] = NoText]

\* signal_handler: SIGTERM or SIGINT sets shutdown_event
Signal ==
    /\ ~shutdown
    /\ shutdown' = TRUE
    /\ UNCHANGED <<tables, nextJob, now, deployment, published, broadcaster,
                   superseded, deletedPending, returned, upload,
                   clientVars, workerVars,
                   adapterVars>>

\* a loop that does not look at shutdown_event
WorkerLoopTest_IgnoresSignal(w) ==
    /\ wpc[w] = "poll"
    /\ wpc' = [wpc EXCEPT ![w] = "dequeue"]
    /\ UNCHANGED <<tables, nextJob, now, world, clientVars,
                   wentry, wjob, wtry, wretry, werr, adapterVars>>

\* run: the test of the while loop
WorkerLoopTest(w) ==
    /\ wpc[w] = "poll"
    /\ wpc' = [wpc EXCEPT ![w] = IF shutdown THEN "stopped" ELSE "dequeue"]
    /\ UNCHANGED <<tables, nextJob, now, world, clientVars,
                   wentry, wjob, wtry, wretry, werr, adapterVars>>

\* Queue.dequeue, the SELECT.  SQLite has no FOR UPDATE (the dialect emits
\* none) and the driver opens no transaction for a SELECT, so the row is
\* read without any lock.  With no unclaimed row dequeue returns None and
\* the worker sleeps for the poll interval, then tests the loop again.
WorkerSelect(w) ==
    /\ wpc[w] = "dequeue"
    /\ IF DequeueCandidates(queue) = {}
       THEN /\ wpc' = [wpc EXCEPT ![w] = "poll"]
            /\ UNCHANGED wentry
       ELSE /\ \E e \in DequeueCandidates(queue) :
                  wentry' = [wentry EXCEPT ![w] = e]
            /\ wpc' = [wpc EXCEPT ![w] = "claim"]
    /\ UNCHANGED <<tables, nextJob, now, world, clientVars,
                   wjob, wtry, wretry, werr, adapterVars>>

\* a dequeue that answers None when the row it selected is gone
WorkerClaimRow_SkipsStale(w) ==
    /\ wpc[w] = "claim"
    /\ IF wentry[w] \in DOMAIN queue
       THEN /\ queue' = [queue EXCEPT ![wentry[w]] =
                            [@ EXCEPT !.dequeued_at = now, !.worker_id = w]]
            /\ wjob' = [wjob EXCEPT ![w] = queue[wentry[w]].job_id]
            /\ wpc' = [wpc EXCEPT ![w] = "process"]
       ELSE /\ wpc' = [wpc EXCEPT ![w] = "poll"]
            /\ UNCHANGED <<queue, wjob>>
    /\ wentry' = [wentry EXCEPT ![w] = NoEntry]
    /\ UNCHANGED <<jobs, sync, nextJob, now, deployment, shutdown, published,
                   broadcaster, superseded, deletedPending, upload,
                   clientVars, wtry, wretry, werr, adapterVars>>

\* Queue.dequeue, the UPDATE by primary key and its commit; dequeue returns
\* the job_id of the row.  When the row is gone the flush raises
\* (StaleDataError), which leaves the while loop of run: the worker stops.
WorkerClaimRow(w) ==
    /\ wpc[w] = "claim"
    /\ IF wentry[w] \in DOMAIN queue
       THEN /\ queue' = [queue EXCEPT ![wentry[w]] =
                            [@ EXCEPT !.dequeued_at = now, !.worker_id = w]]
            /\ wjob' = [wjob EXCEPT ![w] = queue[wentry[w]].job_id]
            /\ wentry' = [wentry EXCEPT ![w] = NoEntry]
            /\ wpc' = [wpc EXCEPT ![w] = "process"]
            /\ UNCHANGED <<wtry, wretry, werr>>
       ELSE /\ wpc' = [wpc EXCEPT ![w] = "stopped"]
            /\ UNCHANGED <<queue, wentry, wjob, wtry, wretry, werr>>
    /\ UNCHANGED <<jobs, sync, nextJob, now, deployment, shutdown, published,
                   broadcaster, superseded, deletedPending, upload,
                   clientVars, adapterVars>>

WorkerClaim(w) ==
    /\ WorkerClaimRow(w)
    /\ UNCHANGED returned

\* the same step, keeping the history of the job ids dequeue returned
WorkerClaimLogged(w) ==
    /\ WorkerClaimRow(w)
    /\ returned' = IF wentry[w] \in DOMAIN queue
                   THEN returned \cup {queue[wentry[w]].job_id}
                   ELSE returned

\* process_job: job lookup, update_job_status(job_id, "processing")
WorkerStart(w) ==
    /\ wpc[w] = "process"
    /\ IF wjob[w] \notin DOMAIN jobs
       THEN /\ wpc' = [wpc EXCEPT ![w] = "poll"]
            /\ WorkerReset(w)
            /\ UNCHANGED jobs
       ELSE /\ jobs' = UpdateJobStatus(jobs, wjob[w], "processing", NoText, NoText, now)
            /\ wpc' = [wpc EXCEPT ![w] = "infer"]
            /\ UNCHANGED <<wentry, wjob, wtry, wretry, werr>>
    /\ UNCHANGED <<queue, sync, nextJob, now, world, clientVars, adapterVars>>

\* the adapter call number n for a job fails when n is within the job's plan
AdapterFails(p, n) == n <= p

\* the plans the media store and the inference of this deployment may follow
PlansOf(d) == IF d.adapter = "succeeds" THEN {0} ELSE AdapterPlans

\* the outcomes post_results of this deployment may have (TRUE: delivered)
UploadOutcomes(d) == IF d.adapter = "succeeds" THEN {TRUE} ELSE BOOLEAN

\* process_job: fetch_image, Image.open and the inference of the task type.
\* The job object was expired by the commit of update_job_status, so reading
\* job.media_store_id reloads the row and raises when it has been deleted.
WorkerInfer(w) ==
    /\ wpc[w] = "infer"
    /\ LET j == wjob[w]
       IN IF j \notin DOMAIN jobs
          THEN /\ wpc' = [wpc EXCEPT ![w] = "failed"]
               /\ werr' = [werr EXCEPT ![w] = "deleted"]
               /\ UNCHANGED <<wtry, adapterVars>>
          ELSE \E p \in (IF attempts[j] = 0 THEN PlansOf(deployment)
                                              ELSE {plan[j]}) :
               /\ plan' = [plan EXCEPT ![j] = p]
               /\ attempts' = [attempts EXCEPT ![j] = @ + 1]
               /\ IF AdapterFails(p, attempts[j] + 1)
                  THEN /\ wpc' = [wpc EXCEPT ![w] = "failed"]
                       /\ \E m \in ErrorTexts : werr' = [werr EXCEPT ![w] = m]
                       /\ UNCHANGED wtry
                  ELSE /\ wpc' = [wpc EXCEPT ![w] =
                                     IF jobs[j].task_type = "face_detection"
                                     THEN "upload" ELSE "complete"]
                       /\ wtry' = [wtry EXCEPT ![w] = 0]
                       /\ UNCHANGED werr
    /\ UNCHANGED <<tables, nextJob, now, world, clientVars, wentry, wjob,
                   wretry>>

\* upload_results_with_retry: one pass of the for loop
WorkerUpload(w) ==
    /\ wpc[w] = "upload"
    /\ \E ok \in UploadOutcomes(deployment) :
          IF ok
          THEN /\ wpc' = [wpc EXCEPT ![w] = "complete"]
               /\ UNCHANGED <<wtry, werr>>
          ELSE IF wtry[w] < UploadMaxRetries - 1
          THEN /\ wtry' = [wtry EXCEPT ![w] = @ + 1]
               /\ UNCHANGED <<wpc, werr>>
          ELSE /\ wpc' = [wpc EXCEPT ![w] = "failed"]
               /\ \E m \in ErrorTexts : werr' = [werr EXCEPT ![w] = m]
               /\ UNCHANGED wtry
    /\ UNCHANGED <<tables, nextJob, now, world, clientVars, wentry, wjob,
                   wretry, adapterVars>>

\* process_job completing the job without handing over the result
WorkerComplete_NoResult(w) ==
    /\ wpc[w] = "complete"
    /\ jobs' = UpdateJobStatus(jobs, wjob[w], "completed", NoText, NoText, now)
    /\ wpc' = [wpc EXCEPT ![w] = "poll"]
    /\ WorkerReset(w)
    /\ UNCHANGED <<queue, sync, nextJob, now, world, clientVars, adapterVars>>

\* process_job: update_job_status(job_id, "completed", result=result)
WorkerComplete(w) ==
    /\ wpc[w] = "complete"
    /\ jobs' = UpdateJobStatus(jobs, wjob[w], "completed", NoText, "result", now)
    /\ wpc' = [wpc EXCEPT ![w] = "poll"]
    /\ WorkerReset(w)
    /\ UNCHANGED <<queue, sync, nextJob, now, world, clientVars, adapterVars>>

\* process_job, the except branch: the query for the job and the test of
\* its retry count; with the retries used up, or the job gone,
\* update_job_status(job_id, "error", error_message=str(e)).
WorkerExcept(w) ==
    /\ wpc[w] = "failed"
    /\ LET j == wjob[w]
       IN IF j \in DOMAIN jobs /\ jobs[j].retry_count < deployment.max_retries
          THEN /\ wretry' = [wretry EXCEPT ![w] = jobs[j].retry_count]
               /\ wpc' = [wpc EXCEPT ![w] = "requeue"]
               /\ UNCHANGED <<jobs, wentry, wjob, wtry, werr>>
          ELSE /\ jobs' = UpdateJobStatus(jobs, j, "error", werr[w], NoText, now)
               /\ wpc' = [wpc EXCEPT ![w] = "poll"]
               /\ WorkerReset(w)
    /\ UNCHANGED <<queue, sync, nextJob, now, world, clientVars, adapterVars>>

\* process_job, the except branch: job.retry_count += 1, commit, and
\* queue.enqueue(job_id, priority=5).  The UPDATE goes by primary key; when
\* the row has been deleted since the query the flush raises
\* (StaleDataError) out of the except branch, out of process_job and out of
\* the while loop of run: the worker stops.
WorkerRequeue(w) ==
    /\ wpc[w] = "requeue"
    /\ LET j == wjob[w]
       IN IF j \in DOMAIN jobs
          THEN /\ jobs' = [jobs EXCEPT ![j].retry_count = wretry[w] + 1]
               /\ queue' = Enqueue(queue, j, DefaultPriority, now)
               /\ wpc' = [wpc EXCEPT ![w] = "poll"]
          ELSE /\ wpc' = [wpc EXCEPT ![w] = "stopped"]
               /\ UNCHANGED <<jobs, queue>>
    /\ WorkerReset(w)
    /\ UNCHANGED <<sync, nextJob, now, world, clientVars, adapterVars>>

\* ------------------------------------------------------------------- Next
ClientStep(c) ==
    \/ \E t \in TaskInputs, m \in MediaIds, p \in PriorityInputs :
          CreateJobBegin(c, t, m, p)
    \/ CreateJobEnqueue(c)
    \/ CreateJobSync(c)
    \/ CreateJobFail(c)
    \/ \E j \in JobIds : DeleteJobBegin(c, j)
    \/ DeleteJobCommit(c)

WorkerStep(w) ==
    \/ WorkerLoopTest(w)
    \/ WorkerSelect(w)
    \/ WorkerClaim(w)
    \/ WorkerStart(w)
    \/ WorkerInfer(w)
    \/ WorkerUpload(w)
    \/ WorkerComplete(w)
    \/ WorkerExcept(w)
    \/ WorkerRequeue(w)

\* the worker's steps with the history of what its dequeue returned
WorkerStepLogged(w) ==
    \/ WorkerLoopTest(w)
    \/ WorkerSelect(w)
    \/ WorkerClaimLogged(w)
    \/ WorkerStart(w)
    \/ WorkerInfer(w)
    \/ WorkerUpload(w)
    \/ WorkerComplete(w)
    \/ WorkerExcept(w)
    \/ WorkerRequeue(w)

Next ==
    \/ Tick
    \/ \E c \in deployment.api : ClientStep(c)
    \/ \E w \in deployment.workers : WorkerStep(w)

Spec == Init /\ [][Next]_vars

\* the state after construction with one of the deployments D and one of
\* the broadcasters B: the tables empty, every process at its start
StartWith(D, B) ==
    /\ jobs = <<>>
    /\ queue = <<>>
    /\ sync = <<>>
    /\ nextJob = 1
    /\ now = 1
    /\ deployment \in D
    /\ shutdown = FALSE
    /\ published = {}
    /\ broadcaster \in B
    /\ superseded = {}
    /\ deletedPending = {}
    /\ returned = {}
    /\ upload = NoUpload
    /\ cpc = [c \in Clients |-> "idle"]
    /\ req = [c \in Clients |-> NoRequest]
    /\ held = [c \in Clients |-> <<>>]
    /\ wpc = [w \in Workers |-> "poll"]
    /\ wentry = [w \in Workers |-> NoEntry]
    /\ wjob = [w \in Workers |-> NoJob]
    /\ wtry = [w \in Workers |-> 0]
    /\ wretry = [w \in Workers |-> 0]
    /\ werr = [w \in Workers |-> NoText]
    /\ attempts = [j \in JobIds |-> 0]
    /\ plan = [j \in JobIds |-> 0]

\* the same with the broadcaster of the default configuration
Start(D) == StartWith(D, {NewBroadcaster("mqtt", "ok")})

\* ------------------------- one caller working through one kept session
\* the (status, error_message, result) arguments update_job_status is
\* called with
UpdateInputs ==
    {<<"processing", NoText, NoText>>,
     <<"error", "boom", "result">>}

LibraryDeployments ==
    {[api |-> {"api-1"}, workers |-> {},
      max_retries |-> DefaultMaxRetries, jobs |-> MaxJobs,
      session |-> "shared", adapter |-> "any"]}

LibraryInit == Start(LibraryDeployments)

LibraryStep(c) ==
    \/ ClientStep(c)
    \/ \E j \in JobIds, u \in UpdateInputs :
          UpdateStatusCall(c, j, u[1], u[2], u[3])
    \/ \E j \in JobIds : GetJobCall(c, j)

LibraryNext ==
    \/ Tick
    \/ \E c \in deployment.api : LibraryStep(c)

LibrarySpec == LibraryInit /\ [][LibraryNext]_vars

\* ------------- jobs created and never deleted, nothing fails, one worker
\* The worker process runs its loop for as long as it lives: asyncio keeps
\* scheduling run, whose only waits are the poll sleep and the adapter
\* calls, so a worker step that stays possible is eventually taken.
LiveDeployments ==
    {[api |-> {"api-1"}, workers |-> {"worker-1"},
      max_retries |-> DefaultMaxRetries, jobs |-> MaxJobs,
      session |-> "request", adapter |-> "succeeds"]}

LiveInit == Start(LiveDeployments)

LiveClientStep(c) ==
    \/ \E t \in TaskInputs, m \in MediaIds, p \in PriorityInputs :
          CreateJobBegin(c, t, m, p)
    \/ CreateJobEnqueue(c)
    \/ CreateJobSync(c)
    \/ CreateJobFail(c)

LiveNext ==
    \/ Tick
    \/ \E c \in deployment.api : LiveClientStep(c)
    \/ \E w \in deployment.workers : WorkerStep(w)

LiveSpec ==
    /\ LiveInit
    /\ [][LiveNext]_vars
    /\ WF_vars(WorkerStep("worker-1"))

\* ------------ one caller creating jobs and working on the Queue directly
QueueDeployments ==
    {[api |-> {"api-1"}, workers |-> {},
      max_retries |-> DefaultMaxRetries, jobs |-> MaxJobs,
      session |-> "request", adapter |-> "any"]}

QueueInit == Start(QueueDeployments)

QueueStep(c) ==
    \/ \E j \in JobIds, p \in PriorityInputs : EnqueueCall(c, j, p)
    \/ \E w \in Workers : DequeueCall(c, w)
    \/ \E j \in JobIds : RemoveCall(c, j)
    \/ PeekCall(c)
    \/ GetAllPendingCall(c)

QueueNext ==
    \/ Tick
    \/ \E c \in deployment.api : LiveClientStep(c)
    \/ \E c \in deployment.api : QueueStep(c)

QueueSpec == QueueInit /\ [][QueueNext]_vars

\* ------------------- a worker that is sent SIGTERM or SIGINT at some time
ShutdownDeployments ==
    {[api |-> {"api-1"}, workers |-> {"worker-1"},
      max_retries |-> DefaultMaxRetries, jobs |-> MaxJobs - 1,
      session |-> "request", adapter |-> "any"],
     [api |-> {"api-1"}, workers |-> {"worker-1"},
      max_retries |-> DefaultMaxRetries, jobs |-> MaxJobs,
      session |-> "request", adapter |-> "succeeds"]}

ShutdownInit == Start(ShutdownDeployments)

ShutdownNext ==
    \/ Tick
    \/ Signal
    \/ \E c \in deployment.api : ClientStep(c)
    \/ \E w \in deployment.workers : WorkerStep(w)

ShutdownSpec ==
    /\ ShutdownInit
    /\ [][ShutdownNext]_vars
    /\ WF_vars(WorkerStep("worker-1"))

\* ------------- one API process deleting the jobs one worker is serving
DeleteDeployments ==
    {[api |-> {"api-1"}, workers |-> {"worker-1"},
      max_retries |-> DefaultMaxRetries, jobs |-> MaxJobs - 1,
      session |-> "request", adapter |-> "any"]}

DeleteInit == Start(DeleteDeployments)

DeleteClientStep(c) ==
    \/ \E t \in TaskInputs, m \in MediaIds, p \in PriorityInputs :
          CreateJobBegin(c, t, m, p)
    \/ CreateJobEnqueue(c)
    \/ CreateJobSync(c)
    \/ CreateJobFail(c)
    \/ \E j \in JobIds : DeleteJobBeginLogged(c, j)
    \/ DeleteJobCommit(c)

DeleteNext ==
    \/ Tick
    \/ \E c \in deployment.api : DeleteClientStep(c)
    \/ \E w \in deployment.workers : WorkerStepLogged(w)

DeleteSpec == DeleteInit /\ [][DeleteNext]_vars

\* ------------------- one caller of upload_results_with_retry on its own
UploadDeployments ==
    {[api |-> {}, workers |-> {"worker-1"},
      max_retries |-> DefaultMaxRetries, jobs |-> 0,
      session |-> "request", adapter |-> "any"]}

UploadInit == Start(UploadDeployments)

UploadNext ==
    \/ \E n \in 0..MaxUploadRetries : UploadBegin(n)
    \/ \E outcome \in {"ok"} \cup ErrorTexts : UploadAttempt(outcome)

UploadSpec == UploadInit /\ [][UploadNext]_vars

\* ------------------- the API process publishing through its broadcaster
BroadcastDeployments ==
    {[api |-> {"api-1"}, workers |-> {},
      max_retries |-> DefaultMaxRetries, jobs |-> MaxJobs - 1,
      session |-> "request", adapter |-> "any"]}

BroadcastInit ==
    StartWith(BroadcastDeployments,
              {NewBroadcaster(t, s) : t \in BroadcastTypes, s \in SetupOutcomes})

BroadcastNext ==
    \/ Tick
    \/ \E c \in deployment.api : ClientStep(c)
    \/ \E c \in deployment.api, e \in EventTypes, j \in JobIds :
          PublishCall(c, e, j)
    \/ BrokerConnect
    \/ BrokerDisconnect

BroadcastSpec == BroadcastInit /\ [][BroadcastNext]_vars

\* ------------------------------- the service with the supersede policy
ServiceDeployments ==
    {[api |-> {"api-1"}, workers |-> {"worker-1"},
      max_retries |-> DefaultMaxRetries, jobs |-> MaxJobs,
      session |-> "request", adapter |-> "any"]}

ServiceInit == Start(ServiceDeployments)

ServiceStep(c) ==
    \/ \E t \in TaskInputs, m \in MediaIds, p \in PriorityInputs :
          ServiceCreateJobBegin(c, t, m, p)
    \/ ServiceSupersedeCommit(c)
    \/ CreateJobEnqueue(c)
    \/ CreateJobSync(c)
    \/ CreateJobFail(c)
    \/ \E j \in JobIds : DeleteJobBegin(c, j)
    \/ DeleteJobCommit(c)

ServiceNext ==
    \/ Tick
    \/ \E c \in deployment.api : ServiceStep(c)
    \/ \E w \in deployment.workers : WorkerStep(w)

ServiceSpec == ServiceInit /\ [][ServiceNext]_vars

TypeOK ==
    /\ DOMAIN jobs \subseteq JobIds
    /\ \A j \in DOMAIN jobs : jobs[j].status \in {"pending", "processing", "completed", "error"}
    /\ \A e \in DOMAIN queue : queue[e].priority \in MinPriority..MaxPriority
    /\ DOMAIN sync \subseteq JobIds
    /\ now \in 1..(1 + MaxTime)

\* =================================================================== claims
\* A job is settled when no worker holds it or has selected its queue row and
\* the queue has no unclaimed row for it: no worker step will touch it again.
Settled(j) ==
    /\ \A w \in Workers :
          /\ wjob[w] # j
          /\ wentry[w] \in DOMAIN queue => queue[wentry[w]].job_id # j
    /\ \A e \in EntriesOf(queue, j) : queue[e].dequeued_at # NoTime

\* no API request on job j is under way
NoRequestOn(j) ==
    \A c \in Clients : cpc[c] = "idle" \/ req[c].job_id # j

\* C1: no two dequeue calls return the same job: whenever a worker's dequeue
\* commits its claim of a queue row, that row was unclaimed until then.
C1_ClaimedByAtMostOneWorker ==
    [][\A w \in Workers :
          (wpc[w] = "claim" /\ wpc'[w] = "process")
              => queue[wentry[w]].dequeued_at = NoTime]_vars

\* row a is ahead of every other unclaimed row: higher priority, or the same
\* priority and inserted earlier (the rowid grows with every insert)
FirstInFifoOrder(q, a) ==
    \A b \in Unclaimed(q) \ {a} :
        \/ q[a].priority > q[b].priority
        \/ q[a].priority = q[b].priority /\ a < b

\* C2: dequeue returns the jobs by priority descending and, within one
\* priority, in insertion order: the row a dequeue selects is ahead of every
\* other unclaimed row, also when two rows carry the same enqueue time.
C2_DequeueOrder ==
    [][\A w \in Workers :
          (wpc[w] = "dequeue" /\ wpc'[w] = "claim")
              => FirstInFifoOrder(queue, wentry'[w])]_vars

\* C3: a job whose adapter fails k times and then succeeds, k not above the
\* retry ceiling, ends completed with retry_count = k: once it has been
\* attempted and is settled, that is the state it is in.
C3_RetriedUntilCompleted ==
    \A j \in DOMAIN jobs :
        (/\ attempts[j] >= 1
         /\ plan[j] <= deployment.max_retries
         /\ Settled(j)
         /\ NoRequestOn(j))
            => /\ jobs[j].status = "completed"
               /\ jobs[j].retry_count = plan[j]

\* C4: a job whose adapter fails on every attempt is attempted
\* max_retries + 1 times and ends in status error with an error message and
\* a completion timestamp: once it has been attempted and is settled, that
\* is the state it is in.
C4_ExhaustedRetriesEndInError ==
    \A j \in DOMAIN jobs :
        (/\ attempts[j] >= 1
         /\ plan[j] = AlwaysFail
         /\ Settled(j)
         /\ NoRequestOn(j))
            => /\ attempts[j] = deployment.max_retries + 1
               /\ jobs[j].status = "error"
               /\ jobs[j].error_message # NoText
               /\ jobs[j].completed_at # NoTime

\* C5: when process_job has failed for a job whose retry count is below the
\* ceiling, the job is pending, its retry count is one higher and the queue
\* holds an unclaimed row for it at the priority it was created with.
C5_FailureRequeuesJob ==
    [][\A w \in Workers :
          (/\ wpc[w] = "requeue" /\ wpc'[w] = "poll"
           /\ wjob[w] \in DOMAIN jobs
           /\ jobs[wjob[w]].retry_count < deployment.max_retries)
              => LET j == wjob[w]
                 IN /\ j \in DOMAIN jobs'
                    /\ jobs'[j].status = "pending"
                    /\ jobs'[j].retry_count = jobs[j].retry_count + 1
                    /\ \E e \in EntriesOf(queue', j) :
                          /\ queue'[e].dequeued_at = NoTime
                          /\ \A o \in EntriesOf(queue, j) :
                                queue'[e].priority = queue[o].priority]_vars

\* C6: at most one job per (media reference, task type) is pending or
\* processing.
C6_OneActiveJobPerPair ==
    \A a, b \in DOMAIN jobs :
        (/\ a # b
         /\ jobs[a].media_store_id = jobs[b].media_store_id
         /\ jobs[a].task_type = jobs[b].task_type
         /\ jobs[a].status \in {"pending", "processing"})
            => jobs[b].status \notin {"pending", "processing"}

\* C7: once a job is completed or error, no step changes its status.
C7_TerminalStatusIsFinal ==
    [][\A j \in DOMAIN jobs :
          (jobs[j].status \in {"completed", "error"} /\ j \in DOMAIN jobs')
              => jobs'[j].status = jobs[j].status]_vars

\* C8: create_job is all-or-nothing: a job row that no request is working on
\* has its queue row and its sync status row, unless a worker has touched it.
C8_CreateIsAllOrNothing ==
    \A j \in DOMAIN jobs :
        (NoRequestOn(j) /\ attempts[j] = 0 /\ jobs[j].status = "pending"
                        /\ jobs[j].retry_count = 0)
            => /\ EntriesOf(queue, j) # {}
               /\ j \in DOMAIN sync

\* C9: create_job followed by delete_job of the job it returned leaves no row
\* for that job in any of the three tables: when the delete of a job that no
\* worker has touched and no other request works on commits, nothing of the
\* job remains.
C9_CreateThenDeleteLeavesNothing ==
    [][\A c \in Clients :
          (/\ cpc[c] = "delete_commit" /\ cpc'[c] = "idle"
           /\ attempts[req[c].job_id] = 0
           /\ \A w \in Workers : wjob[w] # req[c].job_id
           /\ \A o \in Clients \ {c} : cpc[o] = "idle" \/ req[o].job_id # req[c].job_id)
              => LET j == req[c].job_id
                 IN /\ j \notin DOMAIN jobs'
                    /\ EntriesOf(queue', j) = {}
                    /\ j \notin DOMAIN sync']_vars

\* a job of the pair is pending or processing
HasActiveJob(media_store_id, task_type) ==
    \E j \in DOMAIN jobs :
        /\ jobs[j].media_store_id = media_store_id
        /\ jobs[j].task_type = task_type
        /\ jobs[j].status \in {"pending", "processing"}

\* C10: under the reject policy a create_job for a pair that has a pending or
\* processing job ends at once with the conflict (ValueError "already
\* exists", HTTP 409) and changes none of the three tables.
C10_DuplicateCreateRejected ==
    [][\A c \in Clients :
          (cpc[c] = "idle" /\ (cpc'[c] # "idle" \/ req'[c] # req[c]))
              => \A t \in ValidTasks, m \in MediaIds, p \in PriorityInputs :
                    (HasActiveJob(m, t) /\ CreateJobBegin(c, t, m, p))
                        => /\ req'[c].outcome = "already_exists"
                           /\ RouteStatus(req'[c].op, req'[c].outcome) = 409
                           /\ cpc'[c] = "idle"
                           /\ UNCHANGED tables]_vars

\* a create_job has been answered with the conflict while the pair has a
\* processing job
C10_Witness ==
    \E c \in Clients :
        /\ cpc[c] = "idle"
        /\ req[c].op = "create"
        /\ req[c].outcome = "already_exists"
        /\ \E j \in DOMAIN jobs : jobs[j].status = "processing"

\* C11: under the supersede policy a create_job for a pair that has a pending
\* or processing job deletes that job and its queue row, so that get_job of
\* the old id finds nothing; the job it then creates is pending, has another
\* id and is the only pending or processing job of the pair; no dequeue
\* returns the id of a job that was replaced.
C11_SupersedeReplacesJob ==
    [][/\ \A c \in Clients :
            /\ (cpc[c] = "supersede_commit" /\ cpc'[c] = "create_enqueue")
                  => LET old == req[c].job_id
                     IN /\ old \notin DOMAIN jobs'
                        /\ EntriesOf(queue', old) = {}
                        /\ ~GetJob(jobs', queue', old).found
            /\ (/\ cpc[c] = "create_enqueue" /\ cpc'[c] = "create_sync"
                /\ req[c].job_id # NoJob)
                  => LET new == req'[c].job_id
                     IN /\ new # req[c].job_id
                        /\ jobs'[new].status = "pending"
                        /\ ExistingActive(jobs', req[c].media_store_id,
                                          req[c].task_type) = {new}
       /\ \A w \in Workers :
            (wpc[w] = "claim" /\ wpc'[w] = "process")
                => wjob'[w] \notin superseded]_vars

\* C12: update_job_status for a job id that is not in the jobs table returns
\* False (not found) and changes no job, queue or sync status row, whatever
\* status, error message and result it is given; it leaves nothing behind in
\* the caller's session either.
C12_UnknownJobUpdateIsNoOp ==
    [][\A c \in Clients :
          (cpc[c] = "idle" /\ cpc'[c] = "idle" /\ req'[c].op = "update")
              => \A j \in JobIds, u \in UpdateInputs :
                    (/\ j \notin DOMAIN SessionJobs(c)
                     /\ UpdateStatusCall(c, j, u[1], u[2], u[3]))
                        => /\ req'[c].outcome = "not_found"
                           /\ UNCHANGED <<tables, held, nextJob>>]_vars

\* an update of an unknown job id has been answered while the tables hold a
\* job, its queue row and its sync status row
C12_Witness ==
    \E c \in Clients :
        /\ req[c].op = "update"
        /\ req[c].outcome = "not_found"
        /\ \E j \in DOMAIN jobs : EntriesOf(queue, j) # {} /\ j \in DOMAIN sync

\* C13: delete_job of a job id that does not exist returns False and changes
\* nothing; delete_job of an existing job returns True and from then on
\* get_job of that id returns None and the id stays absent, so that a second
\* delete_job of it is the not-found case.
C13_DeleteIsIdempotent ==
    [][/\ \A c \in Clients :
            /\ (cpc[c] = "idle" /\ cpc'[c] = "idle" /\ req'[c].op = "delete")
                  => \A j \in JobIds :
                        (j \notin DOMAIN SessionJobs(c) /\ DeleteJobBegin(c, j))
                            => /\ req'[c].outcome = "not_found"
                               /\ UNCHANGED <<tables, held, nextJob>>
            /\ (cpc[c] = "delete_commit" /\ cpc'[c] = "idle")
                  => /\ req'[c].outcome = "deleted"
                     /\ ~GetJob(held'[c] @@ jobs', queue', req[c].job_id).found
       /\ \A j \in JobIds :
            (/\ j < nextJob
             /\ \A c \in Clients : j \notin DOMAIN SessionJobs(c))
                => \A c \in Clients : j \notin DOMAIN (held'[c] @@ jobs')]_vars

\* a job was created and deleted, and a later delete_job of the same id has
\* been answered with not found
C13_Witness ==
    \E c \in Clients :
        /\ req[c].op = "delete"
        /\ req[c].outcome = "not_found"
        /\ req[c].job_id \in DOMAIN sync
        /\ req[c].job_id \notin DOMAIN jobs

\* the task types the service knows
C14_KnownTasks == {"image_embedding", "face_detection", "face_embedding"}

\* C14: create_job with a task type outside the known ones is rejected with
\* the validation error (HTTP 400) before anything is written: no job, queue
\* or sync status row is created or changed, no job id is used and nothing
\* is left in the session.
C14_InvalidTaskRejected ==
    [][\A c \in Clients :
          (/\ cpc[c] = "idle" /\ req'[c].op = "create"
           /\ (cpc'[c] # "idle" \/ req'[c] # req[c]))
              => \A t \in TaskInputs \ C14_KnownTasks,
                    m \in MediaIds, p \in PriorityInputs :
                    CreateJobBegin(c, t, m, p)
                        => /\ req'[c].outcome = "invalid_task"
                           /\ RouteStatus(req'[c].op, req'[c].outcome) = 400
                           /\ cpc'[c] = "idle"
                           /\ UNCHANGED <<tables, held, nextJob>>]_vars

\* a create_job has been rejected for its task type while the tables hold a
\* job with its queue row
C14_Witness ==
    \E c \in Clients :
        /\ cpc[c] = "idle"
        /\ req[c].op = "create"
        /\ req[c].outcome = "invalid_task"
        /\ \E j \in DOMAIN jobs : EntriesOf(queue, j) # {}

\* C15: create_job with a valid task type and a priority outside 0..10 ends
\* with an error and persists no job row: the call commits nothing, and the
\* job row it built is not committed by anything the same session does
\* later.
C15_RejectedPriorityNeverPersists ==
    [][\A c \in Clients :
          /\ (/\ cpc[c] = "create_enqueue" /\ cpc'[c] # "create_enqueue"
              /\ ~PriorityValid(req[c].priority))
                => /\ cpc'[c] = "idle"
                   /\ req'[c].outcome \in {"invalid_priority", "error"}
                   /\ jobs' = jobs
          /\ \A j \in DOMAIN held[c] : j \notin DOMAIN jobs']_vars

\* C16: with jobs that are created and never deleted, an adapter that always
\* succeeds and a worker that keeps polling, every job is eventually
\* completed with its result stored and its completion time set, and on the
\* way its status only moves from pending to processing and from processing
\* to completed.
C16_EveryJobCompletes ==
    /\ \A j \in JobIds :
          (j \in DOMAIN jobs)
              ~> (/\ j \in DOMAIN jobs
                  /\ jobs[j].status = "completed"
                  /\ jobs[j].result # NoText
                  /\ jobs[j].completed_at # NoTime)
    /\ [][\A j \in DOMAIN jobs' :
             IF j \in DOMAIN jobs
             THEN \/ jobs'[j].status = jobs[j].status
                  \/ jobs[j].status = "pending" /\ jobs'[j].status = "processing"
                  \/ jobs[j].status = "processing" /\ jobs'[j].status = "completed"
             ELSE jobs'[j].status = "pending"]_vars

\* a job has gone through processing and is completed, with its result and
\* both timestamps, while a second job is still pending
C16_Witness ==
    \E j, k \in DOMAIN jobs :
        /\ deployment.adapter = "succeeds"
        /\ jobs[j].status = "completed"
        /\ jobs[j].started_at # NoTime
        /\ jobs[j].completed_at # NoTime
        /\ jobs[j].result # NoText
        /\ jobs[k].status = "pending"

\* C17: whenever the worker moves a job to completed a job_completed event
\* for that job has been published by the end of the step, whenever it moves
\* a job to the terminal error a job_failed event has been, and an event is
\* published only for a job whose status update is already persisted.
C17_WorkerPublishesOutcome ==
    /\ [](\A e \in published :
            /\ e.job_id \in DOMAIN jobs
            /\ jobs[e.job_id].status =
                   (IF e.event = "job_completed" THEN "completed" ELSE "error"))
    /\ [][\A w \in deployment.workers :
             (wpc[w] \in {"complete", "failed"} /\ wpc'[w] = "poll"
                 /\ wjob[w] \in DOMAIN jobs)
             => LET j == wjob[w]
                IN /\ (jobs[j].status # "completed" /\ jobs'[j].status = "completed")
                       => [event |-> "job_completed", job_id |-> j] \in published'
                   /\ (jobs[j].status # "error" /\ jobs'[j].status = "error")
                       => [event |-> "job_failed", job_id |-> j] \in published']_vars

\* C18: when post_results has failed on every attempt for a face_detection
\* job whose inference succeeded, the step that handles the exhausted
\* delivery leaves the job completed: its retry_count is not raised, it is
\* not put back on the queue and it does not get the status error.
C18_DeliveryFailureKeepsCompletion ==
    [][\A w \in deployment.workers :
          (wpc[w] \in {"failed", "requeue"} /\ wtry[w] = UploadMaxRetries - 1
              /\ wpc'[w] = "poll" /\ wjob[w] \in DOMAIN jobs)
          => /\ jobs'[wjob[w]].status = "completed"
             /\ jobs'[wjob[w]].retry_count = jobs[wjob[w]].retry_count
             /\ queue' = queue]_vars

\* C19: when post_results has failed on every attempt for a job, the job's
\* sync status row says failed once the worker is done with the job.
C19_DeliveryFailureRecorded ==
    [][\A w \in deployment.workers :
          (wpc[w] \in {"failed", "requeue"} /\ wtry[w] = UploadMaxRetries - 1
              /\ wpc'[w] = "poll" /\ wjob[w] \in DOMAIN sync)
          => sync'[wjob[w]].sync_status = "failed"]_vars

C21_AdapterFailureNeverStopsLoop ==
    [][\A w \in deployment.workers :
          (wpc[w] \in {"infer", "upload", "failed", "requeue"} /\ wpc'[w] # wpc[w])
          => /\ wpc'[w] # "stopped"
             /\ (wpc[w] \in {"failed", "requeue"} /\ wpc'[w] # "requeue")
                => /\ wpc'[w] = "poll"
                   /\ wjob[w] \in DOMAIN jobs
                      => \/ jobs'[wjob[w]].status = "error"
                         \/ jobs'[wjob[w]].retry_count
                               = jobs[wjob[w]].retry_count + 1]_vars

\* C22: Broadcaster.publish returns to its caller whatever the state of the
\* broker (broadcasting disabled, no client, client not connected, the
\* client's publish answering an error code or raising): it never raises,
\* and a publish call changes no job, queue or sync status row.
C22_PublishNeverRaises ==
    /\ [](broadcaster.last # "raised")
    /\ [][(broadcaster' # broadcaster \/ published' # published)
            => UNCHANGED <<tables, nextJob, clientVars>>]_vars

\* the client's publish has raised for an enabled broadcaster with a job and
\* its queue row in the tables, and publish has logged it and returned
C22_Witness ==
    /\ broadcaster.enabled
    /\ broadcaster.last = "caught"
    /\ \E j \in DOMAIN jobs : EntriesOf(queue, j) # {}

\* C23: in every state, for a job no API request is working on, the queue
\* holds a row for the job exactly when the job is pending or processing; a
\* completed or failed job has none.
C23_QueueRowIffJobActive ==
    \A j \in DOMAIN jobs :
        NoRequestOn(j)
            => ((EntriesOf(queue, j) # {}) <=> jobs[j].status \in ActiveStatuses)

\* C24: get_job reports the priority a job was created with in every state
\* in which the job exists: it reports the priority of the create_job call
\* when the job appears, and what it reports for the job never changes
\* while the job is there, whether queued, claimed or finished.
C24_GetJobReportsGivenPriority ==
    [][\A j \in DOMAIN jobs' :
          IF j \in DOMAIN jobs
          THEN GetJob(jobs', queue', j).priority = GetJob(jobs, queue, j).priority
          ELSE \E c \in deployment.api :
                  /\ cpc[c] = "create_enqueue"
                  /\ req'[c].job_id = j
                  /\ GetJob(jobs', queue', j).priority = req[c].priority]_vars

\* C25: a new job starts in pending, and every change of a job's status is
\* pending to processing, processing to completed, processing to error or
\* processing to pending.
C25_StatusMoves ==
    [][\A j \in DOMAIN jobs' :
          IF j \in DOMAIN jobs
          THEN \/ jobs'[j].status = jobs[j].status
               \/ <<jobs[j].status, jobs'[j].status>>
                      \in {<<"pending", "processing">>,
                           <<"processing", "completed">>,
                           <<"processing", "error">>,
                           <<"processing", "pending">>}
          ELSE jobs'[j].status = "pending"]_vars

\* C26: started_at is written once: a job in status processing has it set,
\* it is set by a call that makes the job processing and to the time of
\* that call, and once set no update_job_status call with any status
\* changes it.
C26_StartedAtWrittenOnce ==
    /\ [](\A j \in DOMAIN jobs :
            jobs[j].status = "processing" => jobs[j].started_at # NoTime)
    /\ [][\A j \in DOMAIN jobs \cap DOMAIN jobs' :
             IF jobs[j].started_at # NoTime
             THEN jobs'[j].started_at = jobs[j].started_at
             ELSE jobs'[j].started_at # NoTime
                     => /\ jobs'[j].status = "processing"
                        /\ jobs'[j].started_at = now]_vars

\* a job made processing at one time and given another status by a call at
\* a later time, with started_at still the earlier time
C26_Witness ==
    \E j \in DOMAIN jobs :
        /\ jobs[j].status = "error"
        /\ jobs[j].started_at # NoTime
        /\ jobs[j].completed_at > jobs[j].started_at

\* the queue table q2 is q with one more row, unclaimed, for job_id with
\* the priority given
OneRowAdded(q, q2, job_id, priority) ==
    \E e \in DOMAIN q2 \ DOMAIN q :
        /\ DOMAIN q2 = DOMAIN q \cup {e}
        /\ \A o \in DOMAIN q : q2[o] = q[o]
        /\ q2[e].job_id = job_id
        /\ q2[e].priority = priority
        /\ q2[e].dequeued_at = NoTime
        /\ q2[e].worker_id = NoWorker

\* C27 as stated: enqueue for a job id that has a queue row, unclaimed or
\* claimed, returns False whatever the priority and leaves the table as it
\* is; for any other job id it inserts exactly one unclaimed row with the
\* priority given.
C27_EnqueueInsertsOrRefuses ==
    [][\A c \in deployment.api :
          (req'[c].op = "enqueue" /\ <<req, queue>>' # <<req, queue>>)
          => IF EntriesOf(queue, req'[c].job_id) # {}
             THEN req'[c].outcome = "False" /\ queue' = queue
             ELSE OneRowAdded(queue, queue', req'[c].job_id, req'[c].priority)]_vars

\* C27 amended: enqueue for a job id that has a queue row, unclaimed or
\* claimed, returns False whatever the priority and leaves the table as it
\* is; for any other job id and a priority within 0..10 it returns True and
\* inserts exactly one unclaimed row with that priority, and for a priority
\* outside 0..10 it raises ValueError and inserts nothing.
C27_EnqueueRefusesDuplicateFirst ==
    [][\A c \in deployment.api :
          (req'[c].op = "enqueue" /\ <<req, queue>>' # <<req, queue>>)
          => IF EntriesOf(queue, req'[c].job_id) # {}
             THEN req'[c].outcome = "False" /\ queue' = queue
             ELSE IF PriorityValid(req'[c].priority)
             THEN /\ req'[c].outcome = "True"
                  /\ OneRowAdded(queue, queue', req'[c].job_id, req'[c].priority)
             ELSE req'[c].outcome = "ValueError" /\ queue' = queue]_vars

\* enqueue with a priority outside 0..10 has returned False for a job whose
\* queue row is claimed
C27_Witness ==
    \E c \in deployment.api :
        /\ req[c].op = "enqueue"
        /\ req[c].outcome = "False"
        /\ ~PriorityValid(req[c].priority)
        /\ \E e \in EntriesOf(queue, req[c].job_id) : queue[e].dequeued_at # NoTime

\* C28: dequeue on a queue with no unclaimed row returns none and changes
\* nothing; otherwise it returns the job of one unclaimed row and changes
\* that row alone, to the claim time and the worker given, leaves every
\* other queue row, every job row and every sync status row as they are,
\* and size() is one less.
C28_DequeueFrame ==
    [][\A c \in deployment.api :
          (req'[c].op = "dequeue" /\ <<req, queue>>' # <<req, queue>>)
          => IF Unclaimed(queue) = {}
             THEN req'[c].outcome = "none" /\ UNCHANGED tables
             ELSE /\ req'[c].outcome = "returned"
                  /\ \E e \in Unclaimed(queue) :
                        /\ req'[c].job_id = queue[e].job_id
                        /\ queue' = [queue EXCEPT ![e] =
                                        [@ EXCEPT !.dequeued_at = now,
                                                  !.worker_id = req'[c].worker_id]]
                  /\ UNCHANGED <<jobs, sync>>
                  /\ Size(queue') = Size(queue) - 1]_vars

\* dequeue has returned a job that create_job made, the job is still
\* pending, and another job is still waiting on the queue
C28_Witness ==
    \E c \in deployment.api :
        /\ req[c].op = "dequeue"
        /\ req[c].outcome = "returned"
        /\ req[c].job_id \in DOMAIN jobs
        /\ jobs[req[c].job_id].status = "pending"
        /\ \E e \in EntriesOf(queue, req[c].job_id) :
              queue[e].worker_id = req[c].worker_id
        /\ Size(queue) = 1

\* C29: peek and get_all_pending change no state; a peek that follows
\* get_all_pending returns the first row of its list (none for the empty
\* list), a dequeue that follows peek returns the job peek showed (none
\* when peek returned none), and a dequeue that follows get_all_pending
\* returns the job at the head of the list.
C29_PeekListDequeueAgree ==
    [][\A c \in deployment.api :
          /\ (req'[c].op \in {"peek", "get_all_pending"} /\ req'[c] # req[c])
                => UNCHANGED <<tables, nextJob>>
          /\ (req[c].op = "get_all_pending" /\ req'[c].op = "peek")
                => IF req[c].rows = <<>>
                   THEN req'[c].outcome = "none"
                   ELSE /\ req'[c].outcome = "returned"
                        /\ req'[c].job_id = req[c].rows[1][1]
                        /\ req'[c].priority = req[c].rows[1][2]
          /\ (req[c].op = "peek" /\ req'[c].op = "dequeue")
                => /\ req'[c].outcome = req[c].outcome
                   /\ req'[c].job_id = req[c].job_id
          /\ (req[c].op = "get_all_pending" /\ req'[c].op = "dequeue")
                => IF req[c].rows = <<>>
                   THEN req'[c].outcome = "none"
                   ELSE req'[c].job_id = req[c].rows[1][1]]_vars


\* delete_job(j) has returned True and one such call had found j pending
DeletedWhilePending(j) ==
    j \in deletedPending /\ j \notin DOMAIN jobs /\ NoRequestOn(j)

\* C30: once delete_job(j) has returned True for a job it found pending, no
\* dequeue of any worker returns j and no worker processes j: none takes a
\* step of the adapter call or of the upload for j.
C30_DeletedPendingJobNeverRuns ==
    [][deletedPending # {} =>
          \A w \in Workers : \A j \in deletedPending :
             DeletedWhilePending(j) =>
                /\ ~(wpc[w] = "claim" /\ wpc'[w] = "process" /\ wjob'[w] = j)
                /\ ~(/\ wjob[w] = j
                     /\ wpc[w] \in {"infer", "upload"}
                     /\ (wpc'[w] # wpc[w] \/ wtry'[w] # wtry[w]))]_vars


\* C31: upload_results_with_retry calls post_results at most max_retries
\* times and never again after a success; after the k-th failed attempt
\* (k from 0) that is not the last it has slept min(2^k, 60) seconds, after
\* the last failed attempt it has not slept and raises that failure.
C31_UploadRetriesWithBackoff ==
    LET n == Len(upload.results)
        failed == {i \in 1..n : upload.results[i] # "ok"}
    IN upload.did # "idle" =>
          /\ n <= upload.max_retries
          /\ \A i \in 1..(n - 1) : i \in failed
          /\ (upload.did = "running") = (n = Cardinality(failed)
                                         /\ n < upload.max_retries)
          /\ (upload.did = "raised") = (n = Cardinality(failed)
                                        /\ n = upload.max_retries /\ n > 0)
          /\ upload.did = "raised" => upload.raised = upload.results[n]
          /\ Len(upload.delays) =
                IF upload.did = "running" THEN n
                ELSE IF n = 0 THEN 0 ELSE n - 1
          /\ \A k \in 1..Len(upload.delays) :
                upload.delays[k] = IF 2 ^ (k - 1) < 60 THEN 2 ^ (k - 1) ELSE 60

\* C31 witness: a call with the largest max_retries has failed every time,
\* slept the capped delay and raised
C31_Witness ==
    /\ upload.did = "raised"
    /\ upload.max_retries = MaxUploadRetries
    /\ Len(upload.delays) = MaxUploadRetries - 1
    /\ upload.delays[MaxUploadRetries - 1] = BackoffCap

\* C32: a job's retry_count starts at 0, never decreases, never exceeds
\* WORKER_MAX_RETRIES, changes by one at a time, and every failed attempt
\* that is retried (the except branch committing its retry) raises it by one.
C32_RetryCountGrowsByOne ==
    [][/\ \A j \in DOMAIN jobs' :
             /\ jobs'[j].retry_count <= deployment.max_retries
             /\ IF j \in DOMAIN jobs
                THEN jobs'[j].retry_count \in
                        {jobs[j].retry_count, jobs[j].retry_count + 1}
                ELSE jobs'[j].retry_count = 0
       /\ \A w \in Workers :
             (wpc[w] = "requeue" /\ wpc'[w] = "poll")
                => jobs'[wjob[w]].retry_count
                      = jobs[wjob[w]].retry_count + 1]_vars

\* C33: a create_job with a valid task type for a media reference that has
\* jobs, none of them a pending or processing job of the same task type
\* (they have another task type, or are completed or error), passes the
\* duplicate check; with an accepted priority it then inserts a job under an
\* id no existing job has and leaves every existing job row and queue row
\* as it was, and it is answered with the new job (HTTP 201).
C33_DuplicateCheckKeyedOnActivePair ==
    [][<<cpc, req>>' # <<cpc, req>> =>
       \A c \in Clients :
          /\ (/\ cpc[c] = "idle"
              /\ req'[c] # req[c]
              /\ req'[c].op = "create"
              /\ jobs # <<>>)
                => \A t \in ValidTasks, m \in MediaIds, p \in PriorityInputs :
                      (/\ ~HasActiveJob(m, t)
                       /\ \E j \in DOMAIN jobs : jobs[j].media_store_id = m
                       /\ CreateJobBegin(c, t, m, p))
                          => /\ cpc'[c] = "create_enqueue"
                             /\ req'[c].outcome = "running"
                             /\ UNCHANGED tables
          /\ (cpc[c] = "create_enqueue" /\ cpc'[c] = "create_sync")
                => /\ req'[c].job_id \notin DOMAIN jobs
                   /\ req'[c].job_id \in DOMAIN jobs'
                   /\ \A j \in DOMAIN jobs :
                         j \in DOMAIN jobs' /\ jobs'[j] = jobs[j]
                   /\ \A e \in DOMAIN queue :
                         e \in DOMAIN queue' /\ queue'[e] = queue[e]
          /\ (cpc[c] = "create_sync" /\ cpc'[c] = "idle" /\ sync' # sync)
                => /\ UNCHANGED <<jobs, queue>>
                   /\ req[c].job_id \in DOMAIN jobs
                         => /\ req'[c].outcome = "created"
                            /\ RouteStatus(req'[c].op, req'[c].outcome) = 201]_vars

\* C33 witness: a create_job has been answered with its new job while the
\* pair has two jobs, an earlier one that is completed or error and the new
\* pending one
C33_Witness ==
    \E c \in Clients :
        /\ cpc[c] = "idle"
        /\ req[c].op = "create"
        /\ req[c].outcome = "created"
        /\ \E j1, j2 \in DOMAIN jobs :
              /\ j1 < j2
              /\ jobs[j1].media_store_id = jobs[j2].media_store_id
              /\ jobs[j1].task_type = jobs[j2].task_type
              /\ jobs[j1].status \in TerminalStatuses
              /\ jobs[j2].status = "pending"

\* C34: a publish attempted while the client is not connected delivers
\* nothing, then or later: an event reaches the topic only in the step of a
\* publish call made while the client is connected, never when the
\* connection is established afterwards.
C34_OfflinePublishIsDropped ==
    [][published' # published
          => /\ broadcaster.link = "connected"
             /\ broadcaster'.link = "connected"
             /\ broadcaster'.last = "published"]_vars

\* C35: each job id is returned by Queue.dequeue at most once: a dequeue
\* never returns a job id that a dequeue has returned before.
C35_JobDequeuedAtMostOnce ==
    [][\A w \in Workers :
          (wpc[w] = "claim" /\ wpc'[w] = "process")
              => wjob'[w] \notin returned]_vars

\* C36: when the except branch retries a failed job (retry count below
\* WORKER_MAX_RETRIES), it leaves the job in status processing with its retry
\* count raised by one and its queue entry still claimed; and a job left so
\* (processing, with a retry counted) is changed by no later step: it stays
\* as it is until it is deleted.
C36_RetriedJobStaysProcessing ==
    [][/\ \A w \in Workers :
             (wpc[w] = "requeue" /\ wpc'[w] = "poll")
                => LET j == wjob[w]
                   IN /\ jobs'[j].status = "processing"
                      /\ jobs'[j].retry_count = jobs[j].retry_count + 1
                      /\ EntriesOf(queue', j) # {}
                      /\ \A e \in EntriesOf(queue', j) :
                            queue'[e].dequeued_at # NoTime
       /\ \A j \in DOMAIN jobs \cap DOMAIN jobs' :
             (jobs[j].status = "processing" /\ jobs[j].retry_count > 0)
                => jobs'[j] = jobs[j]]_vars

\* C37: once the job a worker is processing has been deleted, every later
\* step of that worker for the job (the adapter call, the upload, the update
\* to completed or error, the retry bookkeeping) changes no job, queue or
\* sync status row, so that nothing of the deleted job reappears, and does
\* not stop the worker: it goes on to its next dequeue.
C37_WorkerSurvivesDeletedJob ==
    [][\A w \in Workers :
          (/\ wjob[w] # NoJob
           /\ wjob[w] \notin DOMAIN jobs
           /\ wpc[w] \in {"infer", "upload", "complete", "failed", "requeue"}
           /\ wpc'[w] # wpc[w])
              => /\ UNCHANGED tables
                 /\ wpc'[w] # "stopped"]_vars

\* C38: in every state, a job whose status is processing, completed or error
\* has a queue entry and that entry is claimed; a pending job has a claimed
\* entry only while a worker stands between its dequeue of the job and its
\* update of the job to processing.
C38_StartedJobHasClaimedEntry ==
    \A j \in DOMAIN jobs :
        LET claimed == {e \in EntriesOf(queue, j) :
                           /\ queue[e].dequeued_at # NoTime
                           /\ queue[e].worker_id # NoWorker}
        IN IF jobs[j].status = "pending"
           THEN claimed # {}
                   => \E w \in Workers : wjob[w] = j /\ wpc[w] = "process"
           ELSE EntriesOf(queue, j) # {} /\ claimed = EntriesOf(queue, j)

\* C39: an exception that process_job's handler does not catch, raised by
\* Queue.dequeue (the row it selected is gone at its commit) or by the commit
\* of the failure branch (the job is gone), ends the worker loop although no
\* shutdown signal was given: the worker is then past the finally block of
\* run (media client closed, stopped), it never takes another step, and no
\* queue row is claimed by it any more.
C39_UncaughtExceptionEndsLoop ==
    [][\A w \in deployment.workers :
          /\ (wpc[w] = "claim" /\ wentry[w] \notin DOMAIN queue
                 /\ wpc'[w] # wpc[w])
                => wpc'[w] = "stopped"
          /\ (wpc[w] = "requeue" /\ wjob[w] \notin DOMAIN jobs
                 /\ wpc'[w] # wpc[w])
                => wpc'[w] = "stopped"
          /\ wpc[w] = "stopped"
                => /\ wpc'[w] = "stopped"
                   /\ wentry'[w] = wentry[w] /\ wjob'[w] = wjob[w]
                   /\ \A e \in DOMAIN queue' :
                         queue'[e].worker_id = w
                            => e \in DOMAIN queue /\ queue[e] = queue'[e]]_vars

\* C39 witness: with no signal given the worker has stopped, and a pending
\* job is on the queue, unclaimed
C39_Witness ==
    /\ ~shutdown
    /\ wpc["worker-1"] = "stopped"
    /\ \E e \in Unclaimed(queue) :
          queue[e].job_id \in DOMAIN jobs /\ jobs[queue[e].job_id].status = "pending"

====
